---- MODULE Spec2Model ----
(***************************************************************************)
(* pypose.module.dynamics (_System, LTI) and pypose.module.pf (PF).        *)
(*                                                                         *)
(* A tensor is a record [tag, ndim, v]: v is the nested sequence of its    *)
(* entries, ndim its rank.  Python's None and a raised exception are       *)
(* records with another tag, so every value of the model is a record.      *)
(* A model object is its attribute dictionary, a function from attribute   *)
(* names to values: hasattr is membership in its DOMAIN.                   *)
(***************************************************************************)
EXTENDS Integers, Sequences, FiniteSets, TLC

VARIABLES
    cls,    \* class of the model object: "None" (not constructed), "LTI", "_System"
    impl,   \* which state_transition/observation the object's class supplies
    self,   \* the model object's attributes
    out,    \* the last call made: [op, args, ret]
    done,   \* forward evaluations completed since construction or the last reset
    ctor,   \* the arguments the model object was constructed with
    pf      \* a call of PF.resample_particles: its arguments, draws and result

vars == <<cls, impl, self, out, done, ctor, pf>>

\* ---------------------------------------------------------------- bounds
BatchSize == 2      \* size of the batch dimension of a rank-3 tensor
MaxT == 3           \* cap on the step counter
particle_number == 3 \* PF.particle_number of the filter under check
One == 4            \* the weight 1.0, in units of the weight resolution

\* ---------------------------------------------------------------- values
None == [tag |-> "None"]
Raise(exc, line) == [tag |-> "raise", exc |-> exc, line |-> line]
Tensor(k, v) == [tag |-> "Tensor", ndim |-> k, v |-> v]
Tuple2(a, b) == [tag |-> "tuple", z |-> a, y |-> b]

IsTensor(a) == a.tag = "Tensor"
IsRaise(a) == a.tag = "raise"

\* equality of two values that may be tensors of different rank
Same(a, b) ==
    /\ a.tag = b.tag
    /\ IsTensor(a) => (a.ndim = b.ndim /\ a.v = b.v)
    /\ IsRaise(a) => (a.exc = b.exc /\ a.line = b.line)
    /\ a.tag = "tuple" =>
          /\ a.z.tag = b.z.tag /\ a.z.ndim = b.z.ndim /\ a.z.v = b.z.v
          /\ a.y.tag = b.y.tag /\ a.y.ndim = b.y.ndim /\ a.y.v = b.y.v

Max(a, b) == IF a >= b THEN a ELSE b

\* ---------------------------------------------------------------- torch
RECURSIVE SumTo(_, _)
SumTo(f, n) == IF n = 0 THEN 0 ELSE f[n] + SumTo(f, n - 1)

\* p[i] under broadcasting: a dimension of size 1 is repeated
Bc(p, i) == p[IF Len(p) = 1 THEN 1 ELSE i]

RECURSIVE Wrap(_, _, _)
Wrap(v, from, to) == IF from >= to THEN v ELSE Wrap(<<v>>, from + 1, to)

RECURSIVE AddV(_, _, _)
AddV(p, q, r) ==
    IF r = 0 THEN p + q
    ELSE [i \in 1..Max(Len(p), Len(q)) |-> AddV(Bc(p, i), Bc(q, i), r - 1)]

RECURSIVE NegV(_, _)
NegV(p, r) == IF r = 0 THEN 0 - p ELSE [i \in 1..Len(p) |-> NegV(p[i], r - 1)]

\* Tensor.__add__ of two tensors, with broadcasting
add(a, b) ==
    LET r == Max(a.ndim, b.ndim)
    IN  Tensor(r, AddV(Wrap(a.v, a.ndim, r), Wrap(b.v, b.ndim, r), r))

sub(a, b) == add(a, Tensor(b.ndim, NegV(b.v, b.ndim)))

RECURSIVE mTV(_, _)
mTV(v, r) ==
    IF r = 2 THEN [j \in 1..Len(v[1]) |-> [i \in 1..Len(v) |-> v[i][j]]]
    ELSE [b \in 1..Len(v) |-> mTV(v[b], r - 1)]

\* mT that transposes nothing
mT_Identity(a) == a

\* Tensor.mT: the last two dimensions transposed
mT(a) == Tensor(a.ndim, mTV(a.v, a.ndim))

MM2(p, q) ==
    [i \in 1..Len(p) |-> [j \in 1..Len(q[1]) |->
        SumTo([k \in 1..Len(q) |-> p[i][k] * q[k][j]], Len(q))]]

RECURSIVE MMV(_, _, _, _)
MMV(p, pr, q, qr) ==
    IF pr = 2 /\ qr = 2 THEN MM2(p, q)
    ELSE IF pr > qr THEN [b \in 1..Len(p) |-> MMV(p[b], pr - 1, q, qr)]
    ELSE IF qr > pr THEN [b \in 1..Len(q) |-> MMV(p, pr, q[b], qr - 1)]
    ELSE [b \in 1..Max(Len(p), Len(q)) |-> MMV(Bc(p, b), pr - 1, Bc(q, b), qr - 1)]

RECURSIVE SqueezeRow(_, _)
SqueezeRow(v, r) ==
    IF r = 2 THEN v[1] ELSE [b \in 1..Len(v) |-> SqueezeRow(v[b], r - 1)]

\* Tensor.matmul(b) for b of rank >= 2: a rank-1 a is a row that is removed again
matmul(a, b) ==
    IF a.ndim = 1
    THEN Tensor(b.ndim - 1, SqueezeRow(MMV(<<a.v>>, 2, b.v, b.ndim), b.ndim))
    ELSE Tensor(Max(a.ndim, b.ndim), MMV(a.v, a.ndim, b.v, b.ndim))

\* ---------------------------------------------------------------- inputs
I2 == <<<<1, 0>>, <<0, 1>>>>
Z2 == <<<<0, 0>>, <<0, 0>>>>
M2 == <<<<1, 2>>, <<0, 1>>>>

\* candidate state and output matrices: one of rank 1, two of rank 2, one batched
Mats == << Tensor(1, <<1, 2>>),
           Tensor(2, I2), Tensor(2, M2),
           Tensor(3, [b \in 1..BatchSize |-> IF b = 1 THEN M2 ELSE I2]) >>

\* candidate input and feedthrough matrices
MatsBD == << Tensor(1, <<1, 2>>),
             Tensor(2, Z2), Tensor(2, M2),
             Tensor(3, [b \in 1..BatchSize |-> IF b = 1 THEN Z2 ELSE M2]) >>

\* candidate biases: absent, zero, nonzero
Biases == << None, Tensor(2, <<<<0, 0>>>>), Tensor(2, <<<<1, -1>>>>) >>

\* candidate states and inputs of an LTI model, of rank 1, 2, 2 and 3
Xs == << Tensor(1, <<1, 2>>),
         Tensor(2, <<<<1, 2>>>>), Tensor(2, <<<<0, -1>>>>),
         Tensor(3, [b \in 1..BatchSize |-> <<<<b, 1>>>>]) >>

\* candidate inputs of an LTI model, of rank 2 and 3
Us == << Tensor(2, <<<<2, 1>>>>),
         Tensor(3, [b \in 1..BatchSize |-> <<<<1, b>>>>]) >>

\* candidate states and inputs of a user-defined model: vectors
Vs == << Tensor(1, <<1, 2>>), Tensor(1, <<0, -1>>), Tensor(1, <<2, 1>>) >>

\* the user's subclass: "base" overrides nothing, "lin" and "sq" supply
\* state_transition and observation
Impls == {"base", "lin", "sq"}

\* ---------------------------------------------------------------- object
hasattr(name) == name \in DOMAIN self

SetAttrs(obj, new) ==
    [a \in DOMAIN obj \cup DOMAIN new |-> IF a \in DOMAIN new THEN new[a] ELSE obj[a]]

\* names a _System or LTI object resolves through its class
ClassAttrs ==
    {"forward_hook", "forward", "state_transition", "observation", "reset",
     "set_linearization_point", "A", "B", "C", "D", "c1", "c2"}

\* nn.Module.__getattr__: a name found neither on the object nor on its class
Resolves(name) == name \in ClassAttrs \/ hasattr(name)

\* _System.__init__(time)
System__init__(time) ==
    IF time THEN [t |-> 0, _forward_hooks |-> <<"forward_hook">>]
    ELSE [_forward_hooks |-> <<>>]

\* _System.state_transition, or the override the subclass supplies
state_transition(state, input) ==
    CASE impl = "lin" -> add(matmul(state, mT(Tensor(2, M2))), input)
      [] impl = "sq" ->
            Tensor(1, [i \in 1..Len(state.v) |->
                state.v[i] * state.v[i] + state.v[i] * input.v[i]])
      [] OTHER -> Raise("NotImplementedError", 97)

\* _System.observation, or the override the subclass supplies
observation(state, input) ==
    CASE impl = "lin" -> state
      [] impl = "sq" ->
            Tensor(1, [i \in 1..Len(state.v) |-> state.v[i] * input.v[i]])
      [] OTHER -> Raise("NotImplementedError", 113)

Diag(d) == Tensor(2, [i \in 1..Len(d) |-> [j \in 1..Len(d) |-> IF i = j THEN d[i] ELSE 0]])

\* torch.autograd.functional.jacobian of the subclass's maps at (state, input):
\* fn is "state_transition" or "observation", wrt is "state" or "input"
jacobian(fn, wrt, state, input) ==
    LET x == state.v
        u == input.v
        n == Len(x)
    IN  CASE impl = "lin" /\ fn = "state_transition" /\ wrt = "state" -> Tensor(2, M2)
          [] impl = "lin" /\ fn = "state_transition" /\ wrt = "input" -> Tensor(2, I2)
          [] impl = "lin" /\ fn = "observation" /\ wrt = "state" -> Tensor(2, I2)
          [] impl = "lin" /\ fn = "observation" /\ wrt = "input" -> Tensor(2, Z2)
          [] impl = "sq" /\ fn = "state_transition" /\ wrt = "state" ->
                Diag([i \in 1..n |-> 2 * x[i] + u[i]])
          [] impl = "sq" /\ fn = "state_transition" /\ wrt = "input" ->
                Diag([i \in 1..n |-> x[i]])
          [] impl = "sq" /\ fn = "observation" /\ wrt = "state" ->
                Diag([i \in 1..n |-> u[i]])
          [] impl = "sq" /\ fn = "observation" /\ wrt = "input" ->
                Diag([i \in 1..n |-> x[i]])
          [] OTHER -> Raise("NotImplementedError", IF fn = "state_transition" THEN 97 ELSE 113)

\* a Jacobian accessor without a precomputed matrix
Linearize(fn, wrt, line) ==
    IF ~hasattr("state") \/ ~hasattr("input") THEN Raise("AttributeError", line)
    ELSE jacobian(fn, wrt, self.state, self.input)

\* the properties _System.A, B, C, D
A == IF hasattr("_A") THEN self._A ELSE Linearize("state_transition", "state", 150)
B == IF hasattr("_B") THEN self._B ELSE Linearize("state_transition", "input", 167)
C == IF hasattr("_C") THEN self._C ELSE Linearize("observation", "state", 184)
D == IF hasattr("_D") THEN self._D ELSE Linearize("observation", "input", 201)

\* f(x*, u*) - x*.matmul(J1.mT) - u*.matmul(J2.mT), or the first exception raised
Residual(f, J1, J2, line) ==
    IF ~hasattr("state") \/ ~hasattr("input") THEN Raise("AttributeError", line)
    ELSE IF IsRaise(f) THEN f
    ELSE IF IsRaise(J1) THEN J1
    ELSE IF IsRaise(J2) THEN J2
    ELSE sub(sub(f, matmul(self.state, mT(J1))), matmul(self.input, mT(J2)))

\* the property _System.c1
System_c1 ==
    IF hasattr("_c1") THEN self._c1
    ELSE Residual(IF hasattr("state") /\ hasattr("input")
                  THEN state_transition(self.state, self.input) ELSE None, A, B, 217)

\* the property _System.c2
System_c2 ==
    IF hasattr("_c2") THEN self._c2
    ELSE Residual(IF hasattr("state") /\ hasattr("input")
                  THEN observation(self.state, self.input) ELSE None, C, D, 233)

\* the properties LTI.c1 and LTI.c2
LTI_c1 == self._c1
LTI_c2 == self._c2

c1 == IF cls = "LTI" THEN LTI_c1 ELSE System_c1
c2 == IF cls = "LTI" THEN LTI_c2 ELSE System_c2

\* ---------------------------------------------------------------- forward
\* the entry assertions comparing the rank of x alone with the matrices'
LTI_forward_assert_XOnly(x, u) ==
    IF self._A.ndim >= 3
    THEN IF self._A.ndim = x.ndim THEN None ELSE Raise("AssertionError", 355)
    ELSE IF self._A.ndim = 2 THEN None ELSE Raise("AssertionError", 357)

\* the assertions at the entry of LTI.forward(x, u)
LTI_forward_assert(x, u) ==
    IF A.ndim >= 3
    THEN IF A.ndim = x.ndim /\ x.ndim = u.ndim THEN None ELSE Raise("AssertionError", 355)
    ELSE IF A.ndim = 2 THEN None ELSE Raise("AssertionError", 357)

\* LTI.forward(x, u)
LTI_forward(x, u) ==
    IF IsRaise(LTI_forward_assert(x, u)) THEN LTI_forward_assert(x, u)
    ELSE IF ~IsTensor(c1) THEN Raise("TypeError", 359)
    ELSE IF ~IsTensor(c2) THEN Raise("TypeError", 360)
    ELSE Tuple2(add(add(matmul(x, mT(A)), matmul(u, mT(B))), c1),
                add(add(matmul(x, mT(C)), matmul(u, mT(D))), c2))

\* _System.forward(state, input)
System_forward(state, input) ==
    LET new_state == state_transition(state, input)
        obs == observation(state, input)
    IN  IF IsRaise(new_state) THEN new_state
        ELSE IF IsRaise(obs) THEN obs
        ELSE Tuple2(new_state, obs)

\* a forward hook that leaves the step counter alone
forward_hook_NoTick(inputs) ==
    SetAttrs(self, [input |-> inputs[1], state |-> inputs[2]])

\* _System.forward_hook(module, inputs, outputs), inputs = (state, input)
forward_hook(inputs) ==
    SetAttrs(self, [input |-> inputs[1], state |-> inputs[2], t |-> self.t + 1])

Call(op, args, ret) == [op |-> op, args |-> args, ret |-> ret]

\* ---------------------------------------------------------------- actions
\* the assertion of LTI.__init__ without D
LTI__init__assert_NoD(A0, B0, C0, D0) ==
    A0.ndim = B0.ndim /\ B0.ndim = C0.ndim

\* the assertion of LTI.__init__
LTI__init__assert(A0, B0, C0, D0) ==
    A0.ndim = B0.ndim /\ B0.ndim = C0.ndim /\ C0.ndim = D0.ndim

\* LTI(A, B, C, D, c1, c2)
LTI__init__(A0, B0, C0, D0, b1, b2) ==
    /\ cls = "None"
    /\ IF LTI__init__assert(A0, B0, C0, D0)
       THEN /\ cls' = "LTI"
            /\ impl' = "base"
            /\ self' = SetAttrs(System__init__(FALSE),
                           [_A |-> A0, _B |-> B0, _C |-> C0, _D |-> D0,
                            _c1 |-> b1, _c2 |-> b2])
            /\ out' = Call("__init__", <<A0.ndim, B0.ndim, C0.ndim, D0.ndim>>, None)
            /\ ctor' = [A |-> A0, B |-> B0, C |-> C0, D |-> D0, c1 |-> b1, c2 |-> b2]
       ELSE /\ out' = Call("__init__", <<A0.ndim, B0.ndim, C0.ndim, D0.ndim>>,
                           Raise("AssertionError", 252))
            /\ UNCHANGED <<cls, impl, self, ctor>>
    /\ UNCHANGED <<done, pf>>

\* a user's subclass of _System, constructed with time = tv
System_new(tv, im) ==
    /\ cls = "None"
    /\ cls' = "_System"
    /\ impl' = im
    /\ self' = System__init__(tv)
    /\ out' = Call("__init__", <<>>, None)
    /\ ctor' = [time |-> tv]
    /\ UNCHANGED <<done, pf>>

\* model(x, u): nn.Module.__call__ runs forward, then the forward hooks
Forward(x, u) ==
    /\ cls # "None"
    /\ hasattr("t") => self.t < MaxT
    /\ LET ret == IF cls = "LTI" THEN LTI_forward(x, u) ELSE System_forward(x, u)
       IN  /\ out' = Call("forward", <<x, u>>, ret)
           /\ self' = IF ~IsRaise(ret) /\ self._forward_hooks # <<>>
                      THEN forward_hook(<<x, u>>) ELSE self
           /\ done' = IF ~IsRaise(ret) /\ hasattr("t") THEN done + 1 ELSE done
    /\ UNCHANGED <<cls, impl, ctor, pf>>

\* model.state_transition(x, u), called directly
StateTransition(x, u) ==
    /\ cls # "None"
    /\ out' = Call("state_transition", <<x, u>>, state_transition(x, u))
    /\ UNCHANGED <<cls, impl, self, done, ctor, pf>>

\* model.observation(x, u), called directly
Observation(x, u) ==
    /\ cls # "None"
    /\ out' = Call("observation", <<x, u>>, observation(x, u))
    /\ UNCHANGED <<cls, impl, self, done, ctor, pf>>

\* model.reset()
Reset ==
    /\ cls # "None"
    /\ IF hasattr("t")
       THEN /\ self' = [self EXCEPT !.t = 0]
            /\ done' = 0
            /\ out' = Call("reset", <<>>, None)
       ELSE /\ out' = Call("reset", <<>>, Raise("AttributeError", 116))
            /\ UNCHANGED <<self, done>>
    /\ UNCHANGED <<cls, impl, ctor, pf>>

\* set_linearization_point that also stores the point as the state matrix
set_linearization_point_Clobber(state, input) ==
    /\ cls # "None"
    /\ self' = SetAttrs(self, [state |-> state, input |-> input, _A |-> state])
    /\ out' = Call("set_linearization_point", <<state, input>>, None)
    /\ UNCHANGED <<cls, impl, done, ctor, pf>>

\* model.set_linearization_point(state, input)
set_linearization_point(state, input) ==
    /\ cls # "None"
    /\ self' = SetAttrs(self, [state |-> state, input |-> input])
    /\ out' = Call("set_linearization_point", <<state, input>>, None)
    /\ UNCHANGED <<cls, impl, done, ctor, pf>>

Accessor(name) ==
    CASE name = "A" -> A [] name = "B" -> B [] name = "C" -> C
      [] name = "D" -> D [] name = "c1" -> c1 [] name = "c2" -> c2

\* reading one of model.A, model.B, model.C, model.D, model.c1, model.c2
Get(name) ==
    /\ cls # "None"
    /\ out' = Call(name, <<>>, Accessor(name))
    /\ UNCHANGED <<cls, impl, self, done, ctor, pf>>

\* PF.forward(x, y, u, P, t = t) on a filter whose model is the model object
PF_forward(x, u, t) ==
    /\ cls # "None"
    /\ IF Resolves("set_refpoint")
       THEN /\ self' = SetAttrs(self, [state |-> x, input |-> u])
            /\ out' = Call("PF.forward", <<x, u>>, Raise("TypeError", 121))
       ELSE /\ out' = Call("PF.forward", <<x, u>>, Raise("AttributeError", 119))
            /\ UNCHANGED self
    /\ UNCHANGED <<cls, impl, done, ctor, pf>>

NoResample == [q |-> <<>>, x |-> <<>>, r |-> <<>>, idx |-> <<>>, xr |-> <<>>]

Init ==
    /\ cls = "None"
    /\ impl = "base"
    /\ self = [_forward_hooks |-> <<>>]
    /\ out = Call("none", <<>>, None)
    /\ done = 0
    /\ ctor = [time |-> FALSE]
    /\ pf = NoResample

Names == {"A", "B", "C", "D", "c1", "c2"}

\* an LTI model and the calls made on it
NextLTI ==
    \/ \E a, c \in 1..Len(Mats), b, d \in 1..Len(MatsBD), b1, b2 \in 1..Len(Biases) :
          LTI__init__(Mats[a], MatsBD[b], Mats[c], MatsBD[d], Biases[b1], Biases[b2])
    \/ \E i \in 1..Len(Xs), j \in 1..Len(Us) : Forward(Xs[i], Us[j])
    \/ \E i, j \in 1..Len(Us) : set_linearization_point(Us[i], Us[j])
    \/ \E n \in Names : Get(n)

SpecLTI == Init /\ [][NextLTI]_vars

\* a user-defined model, its calls, and a particle filter stepping it
NextSys ==
    \/ \E tv \in BOOLEAN, im \in Impls : System_new(tv, im)
    \/ \E i, j \in 1..Len(Vs) : Forward(Vs[i], Vs[j])
    \/ \E i, j \in 1..Len(Vs) : StateTransition(Vs[i], Vs[j])
    \/ \E i, j \in 1..Len(Vs) : Observation(Vs[i], Vs[j])
    \/ Reset
    \/ \E i, j \in 1..Len(Vs) : set_linearization_point(Vs[i], Vs[j])
    \/ \E n \in Names : Get(n)
    \/ \E i, j \in 1..Len(Vs) : PF_forward(Vs[i], Vs[j], None)

SpecSys == Init /\ [][NextSys]_vars

\* ---------------------------------------------------------------- PF
\* a cumulative sum that leaves out the entry's own weight
cumsum_Exclusive(q) == [i \in 1..Len(q) |-> SumTo(q, i - 1)]

\* torch.cumsum(q, dim=0)
cumsum(q) == [i \in 1..Len(q) |-> SumTo(q, i)]

\* torch.searchsorted(seq, val): the lower bound, by bisection, counted from 0
RECURSIVE lower_bound(_, _, _, _)
lower_bound(seq, val, start, end) ==
    IF start >= end THEN start
    ELSE LET mid == start + ((end - start) \div 2)
         IN  IF seq[mid + 1] >= val THEN lower_bound(seq, val, start, mid)
             ELSE lower_bound(seq, val, mid + 1, end)

searchsorted(seq, val) == lower_bound(seq, val, 0, Len(seq))

\* cumsumq without the clamp of its last entry
cumsumq_NoClamp(q) == cumsum(q)

\* cumsumq after cumsumq[-1] = 1.0
cumsumq(q) == [cumsum(q) EXCEPT ![Len(q)] = One]

\* PF.resample_particles(q, x), r the draws of torch.rand(particle_number)
resample_particles(q, x, r) ==
    LET idx == [i \in 1..Len(r) |-> searchsorted(cumsumq(q), r[i])]
    IN  [idx |-> idx,
         xr |-> IF \E i \in 1..Len(r) : idx[i] >= Len(x)
                THEN Raise("IndexError", 169)
                ELSE [tag |-> "particles", v |-> [i \in 1..Len(r) |-> x[idx[i] + 1]]]]

\* the rounding error a sum of weights may carry
Slack == One \div 2

\* weight vectors that sum to 1 up to rounding
Weights ==
    {q \in [1..particle_number -> 0..(One + Slack)] :
        SumTo(q, particle_number) \in (One - Slack)..(One + Slack)}

\* draws of torch.rand: particle_number values in [0, 1)
Draws == [1..particle_number -> 0..(One - 1)]

\* the particles xs handed to the resampling, told apart by their values
Particles == {[i \in 1..particle_number |-> 10 * i]}

ResampleParticles ==
    /\ pf.idx = <<>>
    /\ LET res == resample_particles(pf.q, pf.x, pf.r)
       IN  pf' = [pf EXCEPT !.idx = res.idx, !.xr = res.xr]
    /\ UNCHANGED <<cls, impl, self, out, done, ctor>>

InitPF ==
    /\ cls = "None"
    /\ impl = "base"
    /\ self = [_forward_hooks |-> <<>>]
    /\ out = Call("none", <<>>, None)
    /\ done = 0
    /\ ctor = [time |-> FALSE]
    /\ \E q \in Weights, x \in Particles, r \in Draws :
          pf = [q |-> q, x |-> x, r |-> r, idx |-> <<>>, xr |-> <<>>]

NextPF == ResampleParticles

SpecPF == InitPF /\ [][NextPF]_vars



\* ---------------------------------------------------------------- LTI claims
\* the entry of t at batch b, row i, column j, under broadcasting
El(t, b, i, j) ==
    CASE t.ndim = 1 -> t.v[j]
      [] t.ndim = 2 -> Bc(t.v, i)[j]
      [] t.ndim = 3 -> Bc(Bc(t.v, b), i)[j]

Rows(t) ==
    CASE t.ndim = 1 -> 1
      [] t.ndim = 2 -> Len(t.v)
      [] t.ndim = 3 -> Len(t.v[1])

Cols(t) ==
    CASE t.ndim = 1 -> Len(t.v)
      [] t.ndim = 2 -> Len(t.v[1])
      [] t.ndim = 3 -> Len(t.v[1][1])

Batch(t) == IF t.ndim = 3 THEN Len(t.v) ELSE 1

\* entry (b, i, j) of x.J^T + u.K^T + bias, written out by index
AffineEl(x, u, J, K, bias, b, i, j) ==
    SumTo([k \in 1..Cols(x) |-> El(x, b, i, k) * El(J, b, j, k)], Cols(x))
    + SumTo([k \in 1..Cols(u) |-> El(u, b, i, k) * El(K, b, j, k)], Cols(u))
    + El(bias, b, i, j)

\* w is x.J^T + u.K^T + bias
IsAffine(w, x, u, J, K, bias) ==
    /\ IsTensor(w)
    /\ w.ndim = Max(Max(x.ndim, u.ndim), Max(bias.ndim, IF J.ndim > 2 THEN J.ndim ELSE 0))
    /\ Cols(w) = Rows(J)
    /\ \A b \in 1..Batch(w), i \in 1..Rows(w), j \in 1..Cols(w) :
          El(w, b, i, j) = AffineEl(x, u, J, K, bias, b, i, j)

\* w equals x entry by entry, x broadcast to the shape of w
EqualsBroadcast(w, x) ==
    /\ IsTensor(w)
    /\ Cols(w) = Cols(x)
    /\ \A b \in 1..Batch(w), i \in 1..Rows(w), j \in 1..Cols(w) :
          El(w, b, i, j) = El(x, b, i, j)

\* the ranks of the matrices, x and u pass the assertions of forward
RanksAgree(x, u) ==
    IF ctor.A.ndim >= 3 THEN x.ndim = ctor.A.ndim /\ u.ndim = ctor.A.ndim
    ELSE ctor.A.ndim = 2

IsIdentityModel ==
    /\ Same(ctor.A, Tensor(2, I2)) /\ Same(ctor.B, Tensor(2, Z2))
    /\ Same(ctor.C, Tensor(2, I2)) /\ Same(ctor.D, Tensor(2, Z2))
    /\ Same(ctor.c1, Biases[2]) /\ Same(ctor.c2, Biases[2])

LTIForwardCalled == cls = "LTI" /\ out.op = "forward"

C2_DefaultBiasesAreZero ==
    (LTIForwardCalled /\ ctor.c1.tag = "None" /\ ctor.c2.tag = "None"
        /\ RanksAgree(out.args[1], out.args[2])) =>
        /\ out.ret.tag = "tuple"
        /\ IsAffine(out.ret.z, out.args[1], out.args[2], ctor.A, ctor.B, Biases[2])
        /\ IsAffine(out.ret.y, out.args[1], out.args[2], ctor.C, ctor.D, Biases[2])

IsDimensionMismatch(ret) == IsRaise(ret) /\ ret.exc = "AssertionError"

\* C3 (as amended): forward(x, u) fails at its entry assertions, before the
\* arithmetic of lines 359-360 and leaving the model as it was, exactly when
\* the matrices are batched (rank >= 3) and x and u do not both have their
\* rank, or the matrices are not batched and their rank is not 2; the ranks
\* of x and u are not checked against unbatched matrices.
C3_ForwardRankCheck ==
    [][(cls = "LTI" /\ out'.op = "forward") =>
          LET x == out'.args[1]
              u == out'.args[2]
              r == ctor.A.ndim
              bad == IF r >= 3 THEN ~(x.ndim = r /\ u.ndim = r) ELSE r # 2
          IN  /\ bad <=> IsDimensionMismatch(out'.ret)
              /\ bad => (out'.ret.line < 359 /\ self' = self /\ cls' = cls /\ done' = done)]_vars

C3_Witness ==
    /\ LTIForwardCalled /\ IsDimensionMismatch(out.ret)
    /\ ctor.A.ndim = 3 /\ out.args[1].ndim = 2

\* C3 as claimed: with unbatched matrices forward fails unless x and u have
\* rank exactly 2 (stated for the models built with biases, whose forward
\* cannot fail for another reason).
C3_UnbatchedNeedsRank2 ==
    (LTIForwardCalled /\ ctor.A.ndim = 2 /\ IsTensor(ctor.c1) /\ IsTensor(ctor.c2)
        /\ ~(out.args[1].ndim = 2 /\ out.args[2].ndim = 2)) =>
        IsDimensionMismatch(out.ret)

InitCalled == out.op = "__init__" /\ Len(out.args) = 4

AllEqual(s) == \A i, j \in 1..Len(s) : s[i] = s[j]

\* C4 (as amended): constructing an LTI model fails with a dimension-mismatch
\* error, and constructs no model, exactly when the four matrices do not all
\* have the same rank; any common rank is accepted, rank 1 included.
C4_InitRankCheck ==
    InitCalled =>
        /\ IsDimensionMismatch(out.ret) <=> ~AllEqual(out.args)
        /\ IsDimensionMismatch(out.ret) => cls = "None"
        /\ ~IsDimensionMismatch(out.ret) =>
              (cls = "LTI" /\ out.ret.tag = "None" /\ ctor.D.ndim = out.args[4])

C4_Witness ==
    /\ InitCalled /\ IsDimensionMismatch(out.ret)
    /\ out.args[1] = 2 /\ out.args[2] = 2 /\ out.args[3] = 2 /\ out.args[4] = 3

\* C4 as claimed: a model is constructed only when the four matrices are all
\* of rank 2 or all of one batch rank.
C4_OnlyMatrixRanksAccepted ==
    (InitCalled /\ ~IsRaise(out.ret)) => (AllEqual(out.args) /\ out.args[1] >= 2)

\* C10: on an LTI model the accessors A, B, C, D, c1, c2 return the values
\* passed to the constructor after any calls of forward and
\* set_linearization_point, and forward changes nothing of the model.
C10_LTIFrozen ==
    /\ [](cls = "LTI" =>
            /\ Same(A, ctor.A) /\ Same(B, ctor.B) /\ Same(C, ctor.C) /\ Same(D, ctor.D)
            /\ Same(c1, ctor.c1) /\ Same(c2, ctor.c2))
    /\ [][(cls = "LTI" /\ out'.op = "forward") =>
            /\ DOMAIN self' = DOMAIN self
            /\ ~hasattr("t") /\ done' = done /\ cls' = cls
            /\ hasattr("state") => (/\ Same(self'.state, self.state)
                                    /\ Same(self'.input, self.input))
            /\ Same(self'._A, self._A) /\ Same(self'._B, self._B)
            /\ Same(self'._C, self._C) /\ Same(self'._D, self._D)
            /\ Same(self'._c1, self._c1) /\ Same(self'._c2, self._c2)]_vars

C10_Witness ==
    /\ LTIForwardCalled /\ out.ret.tag = "tuple"
    /\ hasattr("state") /\ self.state.ndim = 3
    /\ Same(ctor.A, Tensor(2, M2))


\* ---------------------------------------------------------------- _System claims
TimeVarying == cls = "_System" /\ hasattr("t")

\* C5: the step counter of a time-varying model equals the number of forward
\* evaluations completed since construction or the last reset().
C5_CounterCountsForwards == TimeVarying => self.t = done

C5_Witness ==
    /\ TimeVarying /\ self.t = 2 /\ done = 2
    /\ out.op = "forward" /\ IsRaise(out.ret) = FALSE

HasRefPoint == cls # "None" /\ hasattr("state") /\ hasattr("input")

\* x*.J^T + u*.K^T + bias at the reference point of the model
AffineAtRef(J, K, bias) ==
    add(add(matmul(self.state, mT(J)), matmul(self.input, mT(K))), bias)

\* C6: at the reference point (x*, u*) set on a model,
\* state_transition(x*, u*) = A.x* + B.u* + c1 and
\* observation(x*, u*) = C.x* + D.u* + c2, with the accessors' values
\* (stated for the models whose matrices are 2-dimensional and whose biases
\* are given, which can be evaluated at all).
C6_AffineExactAtRefPoint ==
    (HasRefPoint /\ ctor.A.ndim = 2 /\ IsTensor(ctor.c1) /\ IsTensor(ctor.c2)) =>
        /\ IsTensor(state_transition(self.state, self.input))
        /\ IsTensor(A) /\ IsTensor(B) /\ IsTensor(c1)
        /\ Same(state_transition(self.state, self.input), AffineAtRef(A, B, c1))
        /\ IsTensor(observation(self.state, self.input))
        /\ IsTensor(C) /\ IsTensor(D) /\ IsTensor(c2)
        /\ Same(observation(self.state, self.input), AffineAtRef(C, D, c2))

\* C8: after a particle-filter step on (x, u, t) the reference point of the
\* model is the (x, u) of that step.
C8_StepSetsRefPoint ==
    out.op = "PF.forward" =>
        /\ hasattr("state") /\ hasattr("input")
        /\ Same(self.state, out.args[1])
        /\ Same(self.input, out.args[2])

\* C9: when a time-varying model completes forward(state, input), its stored
\* state is the state argument and its stored input the input argument.
C9_HookCapturesRefPoint ==
    (TimeVarying /\ out.op = "forward" /\ ~IsRaise(out.ret)) =>
        /\ hasattr("state") /\ hasattr("input")
        /\ Same(self.state, out.args[1])
        /\ Same(self.input, out.args[2])

\* ---------------------------------------------------------------- PF claims
Resampled == pf.idx # <<>>

\* the cumulative weight at index j, counted from 0, the last one clamped to 1
CumAt(j) == IF j = Len(pf.q) - 1 THEN One ELSE SumTo(pf.q, j + 1)

IsFirstAtLeast(j, r) == CumAt(j) >= r /\ \A k \in 0..(j - 1) : CumAt(k) < r

\* C7: resample_particles returns particle_number particles; the i-th is the
\* input particle at the first index whose cumulative weight, the last
\* clamped to 1, is >= r_i, an index in 0..N-1.
C7_ResampleFirstCumulative ==
    Resampled =>
        /\ pf.xr.tag = "particles"
        /\ Len(pf.xr.v) = particle_number
        /\ Len(pf.idx) = particle_number
        /\ \A i \in 1..particle_number :
              /\ pf.idx[i] \in 0..(Len(pf.q) - 1)
              /\ IsFirstAtLeast(pf.idx[i], pf.r[i])
              /\ pf.xr.v[i] = pf.x[pf.idx[i] + 1]
              /\ \E j \in 1..Len(pf.x) : pf.xr.v[i] = pf.x[j]

\* a draw above the unclamped sum of the weights selects the last particle
C7_Witness ==
    /\ Resampled
    /\ pf.xr.tag = "particles"
    /\ \E i \in 1..particle_number :
          /\ pf.r[i] > SumTo(pf.q, Len(pf.q))
          /\ pf.idx[i] = Len(pf.q) - 1
    /\ \E i \in 1..particle_number : pf.idx[i] = 0

\* the weight of the particle the i-th draw selected
SelectedWeight(i) == pf.q[pf.idx[i] + 1]

\* C11 (as amended): a draw r_i > 0 that does not exceed the sum of the
\* weights never selects a particle whose weight is zero.
C11_PositiveDrawSelectsPositiveWeight ==
    Resampled =>
        /\ pf.xr.tag = "particles"
        /\ \A i \in 1..particle_number :
              (pf.r[i] > 0 /\ pf.r[i] <= SumTo(pf.q, Len(pf.q))) => SelectedWeight(i) > 0

\* a positive draw passes over a leading zero-weight particle, and another
\* one reaches the last particle
C11_Witness ==
    /\ Resampled
    /\ pf.xr.tag = "particles"
    /\ pf.q[1] = 0
    /\ \E i \in 1..particle_number :
          pf.r[i] > 0 /\ pf.r[i] <= SumTo(pf.q, Len(pf.q)) /\ pf.idx[i] = 1
    /\ \E i \in 1..particle_number :
          pf.r[i] > 0 /\ pf.r[i] <= SumTo(pf.q, Len(pf.q)) /\ pf.idx[i] = Len(pf.q) - 1

\* C11 as claimed: for weights that sum to 1 and any draws in [0, 1), r_i = 0
\* included, every selected particle has a weight > 0.
C11_NeverSelectsZeroWeight ==
    (Resampled /\ SumTo(pf.q, Len(pf.q)) = One) =>
        \A i \in 1..particle_number : SelectedWeight(i) > 0

====
